---- MODULE Spec2Model ----
(***************************************************************************)
(* A model of pseudo_finder.py: the tabular BLAST report parser            *)
(* (collect_query_ids, parse_blast) and the pseudogene annotation          *)
(* pipeline (check_individual_ORFs, replace_pseudos_in_list,               *)
(* check_adjacent_regions, add_locus_tags).                                *)
(*                                                                         *)
(* Python lists are modelled as sequences with 1-based positions, so the   *)
(* Python index k is position k+1 here.  Query identifiers are sequences   *)
(* of characters so that the prefix semantics of re.match is kept.         *)
(***************************************************************************)
EXTENDS Integers, Sequences, FiniteSets, TLC

VARIABLES
    \* ---- parse_blast ----
    lines,          \* the report, one record per line of the file
    blast_format,   \* "BlastP" or "BlastX"
    queries,        \* result of collect_query_ids
    queryIndex,     \* 0-based index into queries
    line_number,    \* 0-based index of the next line of the for loop
    QueryDict,      \* insertion-ordered dict: sequence of entries
    regionList,     \* the returned list
    ProteomeOrfs,   \* StatisticsDict['ProteomeOrfs']
    p_pc            \* "off", "start", "loop", "done", "IndexError", "KeyError"

VARIABLES
    \* ---- compare_regions / join_regions applied to one pair ----
    r1, r2,         \* the two regions
    cutoff,         \* the shared-hit cutoff, a fraction [n, d]
    mergeable,      \* result of compare_regions(r1, r2, cutoff)
    joined,         \* result of join_regions(r1, r2)
    f_pc            \* "off", "compare", "join", "done"

VARIABLES
    \* ---- annotate_pseudos ----
    regions,            \* contig.regions, the list handed to annotate_pseudos
    hits_cutoff,        \* args.shared_hits, a fraction
    length_cutoff,      \* args.length_pseudo, a fraction
    IndividualPseudos,  \* result of check_individual_ORFs
    UpdatedList,        \* result of replace_pseudos_in_list
    sorted_lori,        \* working list of check_adjacent_regions
    MergedList,         \* fused regions of check_adjacent_regions
    IndividualList,     \* standalone regions of check_adjacent_regions
    i,                  \* 0-based loop index of check_adjacent_regions
    StatisticsDict,     \* the counters check_adjacent_regions updates
    FinalList,          \* result of add_locus_tags
    a_pc                \* "off", "individual", "replace", "adjacent", "loop",
                        \* "tags", "done"

VARIABLES
    \* ---- split_regions_into_contigs / sort_contigs ----
    all_regions,    \* the flat list handed to split_regions_into_contigs
    contig_names,   \* list(set(...)): the contig names in the set's iteration order
    contig_list,    \* result of split_regions_into_contigs
    sortedlist,     \* result of sort_contigs
    c_pc            \* "off", "split", "sort", "done"

VARIABLES
    \* ---- add_locus_tags applied to one list ----
    tag_lori,       \* the list of regions handed to add_locus_tags
    tag_contig,     \* the contig name handed to add_locus_tags
    TaggedList,     \* the list add_locus_tags returns
    t_pc            \* "off", "tag", "done"

pvars == <<lines, blast_format, queries, queryIndex, line_number, QueryDict,
           regionList, ProteomeOrfs, p_pc>>

fvars == <<r1, r2, cutoff, mergeable, joined, f_pc>>

avars == <<regions, hits_cutoff, length_cutoff, IndividualPseudos, UpdatedList,
           sorted_lori, MergedList, IndividualList, i, StatisticsDict,
           FinalList, a_pc>>

cvars == <<all_regions, contig_names, contig_list, sortedlist, c_pc>>

tvars == <<tag_lori, tag_contig, TaggedList, t_pc>>

vars == <<pvars, fvars, avars, cvars, tvars>>

(***************************************************************************)
(* Bounds of the model.                                                    *)
(***************************************************************************)
MaxLines == 5
MaxRegions == 3
MaxTagged == 10

(***************************************************************************)
(* Generic helpers for Python list semantics.                              *)
(***************************************************************************)
Range(s) == {s[k] : k \in 1..Len(s)}

RECURSIVE SeqsUpTo(_, _)
SeqsUpTo(S, n) ==
    IF n = 0 THEN {<<>>}
    ELSE LET shorter == SeqsUpTo(S, n - 1)
         IN  shorter \cup {Append(s, x) : s \in {t \in shorter : Len(t) = n - 1}, x \in S}

\* del s[k] for a 1-based position k
DelAt(s, k) == SubSeq(s, 1, k - 1) \o SubSeq(s, k + 1, Len(s))

\* insertion of the (key, item) pairs in key order, equal keys in input order
RECURSIVE SortPairs(_)
SortPairs(ps) ==
    IF ps = <<>> THEN <<>>
    ELSE LET rest == SortPairs(SubSeq(ps, 1, Len(ps) - 1))
             x == ps[Len(ps)]
             n == Cardinality({k \in 1..Len(rest) : rest[k][1] <= x[1]})
         IN  SubSeq(rest, 1, n) \o <<x>> \o SubSeq(rest, n + 1, Len(rest))

\* sorted(s, key=Key): Python's sort is stable, equal keys keep their order
SortedBy(s, Key(_)) ==
    LET sp == SortPairs([k \in 1..Len(s) |-> <<Key(s[k]), s[k]>>])
    IN  [k \in 1..Len(s) |-> sp[k][2]]

Min2(a, b) == IF a <= b THEN a ELSE b
Max2(a, b) == IF a >= b THEN a ELSE b

\* min(list) / max(list) of a non-empty list of integers
MinOf(s) == CHOOSE x \in Range(s) : \A y \in Range(s) : x <= y
MaxOf(s) == CHOOSE x \in Range(s) : \A y \in Range(s) : x >= y

(***************************************************************************)
(* Report lines.  A line is one of                                         *)
(*   "# Query: <id> <contig> [<start>:<end>](<strand>)"   kind "query"     *)
(*   "# 0 hits found"                                     kind "zero"      *)
(*   "<id> <accession> ... <sstart> <send> <slen> <evalue> ..." kind "hit" *)
(*   any other line starting with '#'                     kind "comment"   *)
(***************************************************************************)
QueryIds == {<<"Q", "1">>, <<"Q", "1", "0">>, <<"Q", "2">>}

\* the coordinate record written in the header of each query
HeaderOf(id) ==
    IF id = <<"Q", "1">> THEN [contig |-> "c1", start |-> 100, end |-> 400, strand |-> "+"]
    ELSE IF id = <<"Q", "1", "0">> THEN [contig |-> "c1", start |-> 500, end |-> 560, strand |-> "-"]
    ELSE [contig |-> "c2", start |-> 300, end |-> 900, strand |-> "+"]

QueryLine(id) ==
    [kind |-> "query", id |-> id, contig |-> HeaderOf(id).contig,
     start |-> HeaderOf(id).start, end |-> HeaderOf(id).end,
     strand |-> HeaderOf(id).strand]

ZeroLine == [kind |-> "zero"]
CommentLine == [kind |-> "comment"]

\* the columns of a data row that the parser reads (columns 1, 8, 9, 10, 11)
HitLine(id, acc, ss, se, sl, ev) ==
    [kind |-> "hit", id |-> id, accession |-> acc, sstart |-> ss, send |-> se,
     slen |-> sl, evalue |-> ev]

\* shapes of lines a report is drawn from; the columns of a data row are
\* filled in from the row's position by RowAt
LineShapes ==
    {[kind |-> "query", id |-> q] : q \in QueryIds} \cup
    {[kind |-> "hit", id |-> q] : q \in QueryIds} \cup
    {[kind |-> "zero"], [kind |-> "comment"]}

Accessions == <<"a", "b", "c">>

RowAt(id, k) ==
    HitLine(id, Accessions[(k % 3) + 1], (k * 3) % 5, 6 + ((k * 2) % 3),
            100 + 10 * (k % 2), k % 2)

LineAt(shape, k) ==
    IF shape.kind = "query" THEN QueryLine(shape.id)
    ELSE IF shape.kind = "hit" THEN RowAt(shape.id, k)
    ELSE shape

\* the reports of at most n lines
Reports(n) ==
    {[k \in 1..Len(s) |-> LineAt(s[k], k)] : s \in SeqsUpTo(LineShapes, n)}

\* re.match("^#", line)
StartsWithHash(line) == line.kind \in {"query", "zero", "comment"}

\* a is a prefix of b
IsPrefix(a, b) == Len(a) <= Len(b) /\ SubSeq(b, 1, Len(a)) = a

\* re.match("^# Query: %s" % q, line)
MatchesQueryHeader(q, line) == line.kind = "query" /\ IsPrefix(q, line.id)

\* re.match("^# 0 hits found", line)
MatchesZeroHits(line) == line.kind = "zero"

\* re.match("^%s" % q, line): only a data row starts with an identifier
MatchesRow(q, line) == line.kind = "hit" /\ IsPrefix(q, line.id)

(***************************************************************************)
(* collect_query_ids: the identifiers of the "# Query:" lines, in order.   *)
(***************************************************************************)
RECURSIVE collect_query_ids(_)
collect_query_ids(ls) ==
    IF ls = <<>> THEN <<>>
    ELSE IF Head(ls).kind = "query"
         THEN <<Head(ls).id>> \o collect_query_ids(Tail(ls))
         ELSE collect_query_ids(Tail(ls))

(***************************************************************************)
(* BlastHit and the dictionary of parse_blast.                             *)
(***************************************************************************)
BlastHit(acc, slen, s_start, s_end, eval) ==
    [accession |-> acc, slen |-> slen, s_start |-> s_start, s_end |-> s_end,
     eval |-> eval]

\* position of key in the dict, 0 when absent
DictPos(d, key) ==
    IF \E k \in 1..Len(d) : d[k].key = key
    THEN CHOOSE k \in 1..Len(d) : d[k].key = key
    ELSE 0

\* d[key] = value: an existing key keeps its position, a new one goes last
DictSet(d, key, value) ==
    IF DictPos(d, key) = 0 THEN Append(d, value)
    ELSE [d EXCEPT ![DictPos(d, key)] = value]

\* the record built from a "# Query:" line; it has no 'hits' key yet
QueryEntry(key, line) ==
    [key |-> key, contig |-> line.contig, query |-> key, start |-> line.start,
     end |-> line.end, strand |-> line.strand, hasHits |-> FALSE, hits |-> <<>>]

\* the BlastHit of a data row: slen is multiplied by 3
HitOfRow(line) ==
    BlastHit(line.accession, line.slen * 3, line.sstart, line.send, line.evalue)

\* lines[line_number - 1] of Python: index -1 is the last line
PreviousLine(ls, n) == IF n = 0 THEN ls[Len(ls)] ELSE ls[n]

(***************************************************************************)
(* RegionInfo.  The note is kept as a record: reason is "" for an          *)
(* unannotated region, "ORF" for the note written by                       *)
(* convert_region_to_pseudo ('... Reason: ORF is <pct>% of the average     *)
(* length ...', pct in tenths of a percent) and "fragmentation" for the    *)
(* note written by join_regions; tag is the locus tag appended by          *)
(* add_locus_tags, <<>> while there is none.                               *)
(***************************************************************************)
Note(reason, pct) == [reason |-> reason, pct |-> pct, tag |-> <<>>]

EmptyNote == Note("", 0)

RegionInfo(contig, query, start, end, strand, hits, note) ==
    [contig |-> contig, query |-> query, start |-> start, end |-> end,
     strand |-> strand, hits |-> hits, note |-> note]

(***************************************************************************)
(* get_intergenic_query_range                                              *)
(***************************************************************************)
\* variant: the range of the first hit instead of the least start and the
\* greatest end
get_intergenic_query_range_first(lobh, start_position) ==
    <<start_position + lobh[1].s_start + 1, start_position + lobh[1].s_end + 1>>

get_intergenic_query_range(lobh, start_position) ==
    LET startList == [k \in 1..Len(lobh) |-> lobh[k].s_start]
        endList == [k \in 1..Len(lobh) |-> lobh[k].s_end]
    IN  <<start_position + MinOf(startList) + 1, start_position + MaxOf(endList) + 1>>

(***************************************************************************)
(* Cutoffs are fractions [n, d] with d > 0: the code compares floats, the  *)
(* model compares the fractions exactly.                                   *)
(***************************************************************************)
Frac(n, d) == [n |-> n, d |-> d]

(***************************************************************************)
(* number_of_matching_hits, matching_hit_critera                           *)
(***************************************************************************)
AccessionsOf(r) == {r.hits[k].accession : k \in 1..Len(r.hits)}

number_of_matching_hits(a, b) == Cardinality(AccessionsOf(a) \cap AccessionsOf(b))

\* variant: the two regions are not ordered by their number of hits
HitCount_Constant(r) == 0

\* key=lambda r: len(r.hits)
HitCount(r) == Len(r.hits)

\* variant: the hit-count floor of the individual classifier applied to merging
matching_hit_critera_floor3(a, b, c) ==
    IF Len(a.hits) > 2 /\ Len(b.hits) > 2
    THEN number_of_matching_hits(a, b) * c.d >= c.n * Min2(Len(a.hits), Len(b.hits))
    ELSE FALSE

matching_hit_critera(a, b, c) ==
    IF Len(a.hits) # 0 /\ Len(b.hits) # 0
    THEN LET s == SortedBy(<<a, b>>, HitCount)
         IN  \* number_of_matching_hits(r1,r2)/len(s[0].hits) >= cutoff
             number_of_matching_hits(a, b) * c.d >= c.n * Len(s[1].hits)
    ELSE FALSE

(***************************************************************************)
(* region_proximity, compare_regions                                       *)
(***************************************************************************)
StartOf(r) == r.start

\* variant: the regions are not put in start order first
region_proximity_unsorted(a, b) == b.start - a.end

region_proximity(a, b) ==
    LET sorted_by_start == SortedBy(<<a, b>>, StartOf)
    IN  sorted_by_start[2].start - sorted_by_start[1].end

compare_regions(a, b, c) ==
    /\ region_proximity(a, b) < 1000
    /\ matching_hit_critera(a, b, c)
    /\ a.strand = b.strand

(***************************************************************************)
(* sort_hits_by_eval, join_regions.  list(set(r1.hits + r2.hits)) lists    *)
(* the distinct hits in an order that the hash values decide; the stable   *)
(* sort by e-value keeps that order among hits of equal e-value.  The      *)
(* possible results are all the orderings of the distinct hits by          *)
(* non-decreasing e-value.                                                 *)
(***************************************************************************)
EvalOf(h) == h.eval

sort_hits_by_eval(lobh) == SortedBy(lobh, EvalOf)

\* the orderings of the set S of hits by non-decreasing e-value: what
\* sort_hits_by_eval(list(S)) can return over the iteration orders of S
RECURSIVE EvalOrders(_)
EvalOrders(S) ==
    IF S = {} THEN {<<>>}
    ELSE UNION {{<<h>> \o t : t \in EvalOrders(S \ {h})} :
                   h \in {x \in S : \A y \in S : x.eval <= y.eval}}

\* variant: the concatenated hits are sorted without removing duplicates
MergedHits_NoDedup(a, b) == {sort_hits_by_eval(a.hits \o b.hits)}

\* the values that sort_hits_by_eval(list(set(r1.hits + r2.hits))) can take
MergedHits(a, b) == EvalOrders(Range(a.hits \o b.hits))

FragmentationNote == Note("fragmentation", 0)

PseudoUniqueID == <<"locus_tag=pseudo_uniqueID">>

\* join_regions(a, b) with merged_hits = mh
join_regions(a, b, mh) ==
    RegionInfo(a.contig, PseudoUniqueID, a.start, b.end, a.strand, mh,
               FragmentationNote)

(***************************************************************************)
(* Regions and hits the inputs are drawn from.                             *)
(***************************************************************************)
Hit(acc, slen, n, ev) == BlastHit(acc, slen, n, n + 8, ev)

hA == Hit("a", 300, 1, 1)
hB == Hit("b", 300, 1, 2)
hC == Hit("c", 300, 1, 3)
hD == Hit("d", 100, 1, 1)
hE == Hit("e", 300, 1, 4)
hD2 == Hit("d", 100, 2, 5)
hD3 == Hit("d", 100, 3, 6)

InputRegion(start, end, strand, hits) ==
    RegionInfo("c1", <<"orf">>, start, end, strand, hits, EmptyNote)

\* regions with at least one hit, as parse_blast returns them
RegionPool ==
    { InputRegion(100, 160, "+", <<hA, hB, hC>>),
      InputRegion(100, 700, "+", <<hA, hB, hC>>),
      InputRegion(100, 160, "+", <<hB, hA>>),
      InputRegion(100, 160, "+", <<hD, hD2, hD3>>),
      InputRegion(300, 360, "+", <<hA, hD, hE>>),
      InputRegion(500, 1100, "+", <<hE, hD, hB>>),
      InputRegion(300, 360, "-", <<hA, hB, hC>>),
      InputRegion(300, 360, "+", <<hC>>),
      InputRegion(1200, 1260, "+", <<hA, hB, hC>>),
      InputRegion(1200, 1800, "-", <<hB, hA>>) }

\* compare_regions and join_regions also accept regions without hits and
\* regions whose end lies before their start
PairPool ==
    RegionPool \cup
    { InputRegion(300, 360, "+", <<>>),
      InputRegion(1200, 1260, "+", <<>>),
      InputRegion(900, 100, "+", <<hA, hB, hC>>),
      InputRegion(100, 1100, "+", <<hA, hD, hE>>) }

HitCutoffs == {Frac(3, 10), Frac(6, 10), Frac(1, 1)}

(***************************************************************************)
(* compare_regions and join_regions applied to one pair of regions.        *)
(***************************************************************************)
NoRegion == [none |-> TRUE]

PairIdle ==
    /\ r1 = NoRegion
    /\ r2 = NoRegion
    /\ cutoff = Frac(0, 1)
    /\ mergeable = FALSE
    /\ joined = NoRegion
    /\ f_pc = "off"

NoStatistics ==
    [FragmentedOrfs |-> 0, PseudogenesTotal |-> 0, PseudogenesShort |-> 0,
     PseudogenesFragmented |-> 0]

AnnotateIdle ==
    /\ regions = <<>>
    /\ hits_cutoff = Frac(0, 1)
    /\ length_cutoff = Frac(0, 1)
    /\ IndividualPseudos = <<>>
    /\ UpdatedList = <<>>
    /\ sorted_lori = <<>>
    /\ MergedList = <<>>
    /\ IndividualList = <<>>
    /\ i = 0
    /\ StatisticsDict = NoStatistics
    /\ FinalList = <<>>
    /\ a_pc = "off"

ParseIdle ==
    /\ lines = <<>>
    /\ blast_format = "BlastP"
    /\ queries = <<>>
    /\ queryIndex = 0
    /\ line_number = 0
    /\ QueryDict = <<>>
    /\ regionList = <<>>
    /\ ProteomeOrfs = 0
    /\ p_pc = "off"

TagIdle ==
    /\ tag_lori = <<>>
    /\ tag_contig = ""
    /\ TaggedList = <<>>
    /\ t_pc = "off"

ContigIdle ==
    /\ all_regions = <<>>
    /\ contig_names = <<>>
    /\ contig_list = <<>>
    /\ sortedlist = <<>>
    /\ c_pc = "off"

Compare ==
    /\ f_pc = "compare"
    /\ mergeable' = compare_regions(r1, r2, cutoff)
    /\ f_pc' = "join"
    /\ UNCHANGED <<r1, r2, cutoff, joined>>
    /\ UNCHANGED <<pvars, avars, cvars, tvars>>

Join ==
    /\ f_pc = "join"
    /\ \E mh \in MergedHits(r1, r2) : joined' = join_regions(r1, r2, mh)
    /\ f_pc' = "done"
    /\ UNCHANGED <<r1, r2, cutoff, mergeable>>
    /\ UNCHANGED <<pvars, avars, cvars, tvars>>

InitPair ==
    /\ r1 \in PairPool
    /\ r2 \in PairPool
    /\ cutoff \in HitCutoffs
    /\ mergeable = FALSE
    /\ joined = NoRegion
    /\ f_pc = "compare"
    /\ ParseIdle
    /\ AnnotateIdle
    /\ ContigIdle
    /\ TagIdle

NextPair == Compare \/ Join

SpecPair == InitPair /\ [][NextPair]_vars

(***************************************************************************)
(* split_regions_into_contigs and sort_contigs.  Contig names are          *)
(* sequences of characters; Python compares strings by code point,         *)
(* character by character, a proper prefix being the smaller.              *)
(***************************************************************************)
Contig(rs, name) == [regions |-> rs, name |-> name]

ContigNames == {<<"c", "1">>, <<"c", "1", "0">>, <<"c", "2">>}

\* ord(ch) of the characters of the names
Ord(ch) == CASE ch = "0" -> 48 [] ch = "1" -> 49 [] ch = "2" -> 50 [] ch = "c" -> 99

\* a < b and a <= b on str
RECURSIVE StrLess(_, _)
StrLess(a, b) ==
    IF b = <<>> THEN FALSE
    ELSE IF a = <<>> THEN TRUE
    ELSE IF Head(a) # Head(b) THEN Ord(Head(a)) < Ord(Head(b))
    ELSE StrLess(Tail(a), Tail(b))

StrLeq(a, b) == a = b \/ StrLess(a, b)

\* regions of the flat list: two per contig name
ContigRegion(name, start) ==
    RegionInfo(name, <<"orf">>, start, start + 60, "+", <<hA>>, EmptyNote)

FlatPool == {ContigRegion(name, start) : name \in ContigNames, start \in {100, 300}}

\* the orders in which list(set(...)) may enumerate the set S
RECURSIVE SetOrders(_)
SetOrders(S) ==
    IF S = {} THEN {<<>>}
    ELSE UNION {{<<x>> \o t : t \in SetOrders(S \ {x})} : x \in S}

\* the two loops of split_regions_into_contigs over the names in the order ns
split_regions_into_contigs(rs, ns) ==
    [k \in 1..Len(ns) |->
        Contig(SelectSeq(rs, LAMBDA ri : ri.contig = ns[k]), ns[k])]

\* variant: the list is returned in the order received
sort_contigs_unsorted(loc) == loc

\* sorted(loc, key=lambda c: c.name): stable, by str comparison of the names
RECURSIVE sort_contigs(_)
sort_contigs(loc) ==
    IF loc = <<>> THEN <<>>
    ELSE LET rest == sort_contigs(SubSeq(loc, 1, Len(loc) - 1))
             x == loc[Len(loc)]
             n == Cardinality({k \in 1..Len(rest) : StrLeq(rest[k].name, x.name)})
         IN  SubSeq(rest, 1, n) \o <<x>> \o SubSeq(rest, n + 1, Len(rest))

SplitRegionsIntoContigs ==
    /\ c_pc = "split"
    /\ \E ns \in SetOrders({all_regions[k].contig : k \in 1..Len(all_regions)}) :
          /\ contig_names' = ns
          /\ contig_list' = split_regions_into_contigs(all_regions, ns)
    /\ c_pc' = "sort"
    /\ UNCHANGED <<all_regions, sortedlist>>
    /\ UNCHANGED <<pvars, fvars, avars, tvars>>

SortContigs ==
    /\ c_pc = "sort"
    /\ sortedlist' = sort_contigs(contig_list)
    /\ c_pc' = "done"
    /\ UNCHANGED <<all_regions, contig_names, contig_list>>
    /\ UNCHANGED <<pvars, fvars, avars, tvars>>

InitContigs ==
    /\ all_regions \in SeqsUpTo(FlatPool, MaxRegions)
    /\ contig_names = <<>>
    /\ contig_list = <<>>
    /\ sortedlist = <<>>
    /\ c_pc = "split"
    /\ ParseIdle
    /\ PairIdle
    /\ AnnotateIdle
    /\ TagIdle

NextContigs == SplitRegionsIntoContigs \/ SortContigs

SpecContigs == InitContigs /\ [][NextContigs]_vars

(***************************************************************************)
(* parse_blast                                                             *)
(***************************************************************************)
\* the if / elif / elif chain of the loop body for one line, with q the
\* expected identifier queries[queryIndex]
LineBranch(line, q, d, qi) ==
    IF MatchesQueryHeader(q, line)
    THEN [dict |-> DictSet(d, q, QueryEntry(q, line)), qi |-> qi, err |-> ""]
    ELSE IF MatchesZeroHits(line)
    THEN IF DictPos(d, q) = 0
         THEN [dict |-> d, qi |-> qi, err |-> "KeyError"]
         ELSE [dict |-> DelAt(d, DictPos(d, q)), qi |-> qi + 1, err |-> ""]
    ELSE IF MatchesRow(q, line)
    THEN IF DictPos(d, q) = 0
         THEN [dict |-> d, qi |-> qi, err |-> "KeyError"]
         ELSE [dict |-> [d EXCEPT ![DictPos(d, q)] =
                            [@ EXCEPT !.hasHits = TRUE,
                                      !.hits = Append(@, HitOfRow(line))]],
               qi |-> qi, err |-> ""]
    ELSE [dict |-> d, qi |-> qi, err |-> ""]

\* the try block: a '#' line whose previous line starts with the current
\* query's identifier ends the hits of that query; the IndexError of
\* queries[queryIndex] is swallowed
EndOfHits(ls, qs, n, qi) ==
    IF /\ StartsWithHash(ls[n + 1])
       /\ qi < Len(qs)
       /\ MatchesRow(qs[qi + 1], PreviousLine(ls, n))
    THEN qi + 1
    ELSE qi

\* the regions of the final loop over the dictionary
RegionOfEntry(e, fmt) ==
    IF fmt = "BlastP"
    THEN RegionInfo(e.contig, e.query, e.start, e.end, e.strand, e.hits, EmptyNote)
    ELSE LET rng == get_intergenic_query_range(e.hits, e.start)
         IN  RegionInfo(e.contig, e.query, rng[1], rng[2], e.strand, e.hits, EmptyNote)

StartParse ==
    /\ p_pc = "start"
    /\ queries' = collect_query_ids(lines)
    /\ ProteomeOrfs' = Len(collect_query_ids(lines))
    /\ p_pc' = "loop"
    /\ UNCHANGED <<lines, blast_format, queryIndex, line_number, QueryDict, regionList>>
    /\ UNCHANGED <<fvars, avars, cvars, tvars>>

\* the body of the for loop for the line at 0-based index n, from the
\* dictionary d and the query index qi: the lookup queries[queryIndex] of the
\* first condition, the if / elif chain, then the try block
LineStep(ls, qs, n, d, qi) ==
    IF qi >= Len(qs)
    THEN [dict |-> d, qi |-> qi, err |-> "IndexError"]
    ELSE LET b == LineBranch(ls[n + 1], qs[qi + 1], d, qi)
         IN  IF b.err # "" THEN b
             ELSE [dict |-> b.dict, qi |-> EndOfHits(ls, qs, n, b.qi), err |-> ""]

\* one iteration of "for line_number, line in enumerate(lines)"
ParseLine ==
    /\ p_pc = "loop"
    /\ line_number < Len(lines)
    /\ LET r == LineStep(lines, queries, line_number, QueryDict, queryIndex)
       IN  IF r.err # ""
           THEN /\ p_pc' = r.err
                /\ UNCHANGED <<queryIndex, line_number, QueryDict>>
           ELSE /\ QueryDict' = r.dict
                /\ queryIndex' = r.qi
                /\ line_number' = line_number + 1
                /\ p_pc' = "loop"
    /\ UNCHANGED <<lines, blast_format, queries, regionList, ProteomeOrfs>>
    /\ UNCHANGED <<fvars, avars, cvars, tvars>>

\* the loop over QueryDict after the last line, and the return
BuildRegions ==
    /\ p_pc = "loop"
    /\ line_number = Len(lines)
    /\ IF \E k \in 1..Len(QueryDict) : ~QueryDict[k].hasHits
       THEN /\ p_pc' = "KeyError"
            /\ UNCHANGED regionList
       ELSE /\ regionList' = [k \in 1..Len(QueryDict) |->
                                 RegionOfEntry(QueryDict[k], blast_format)]
            /\ p_pc' = "done"
    /\ UNCHANGED <<lines, blast_format, queries, queryIndex, line_number,
                   QueryDict, ProteomeOrfs>>
    /\ UNCHANGED <<fvars, avars, cvars, tvars>>

InitParse ==
    /\ lines \in Reports(MaxLines)
    /\ blast_format \in {"BlastP", "BlastX"}
    /\ queries = <<>>
    /\ queryIndex = 0
    /\ line_number = 0
    /\ QueryDict = <<>>
    /\ regionList = <<>>
    /\ ProteomeOrfs = 0
    /\ p_pc = "start"
    /\ PairIdle
    /\ AnnotateIdle
    /\ ContigIdle
    /\ TagIdle

NextParse == StartParse \/ ParseLine \/ BuildRegions

SpecParse == InitParse /\ [][NextParse]_vars

(***************************************************************************)
(* annotate_pseudos.  The regions of the pipeline carry two fields more    *)
(* than RegionInfo: sid names the int object that the start field refers   *)
(* to (the code compares starts with "is not"), and parts is the set of    *)
(* positions in contig.regions of the input regions joined into the        *)
(* region.                                                                 *)
(***************************************************************************)
Tracked(r, sid, parts) == r @@ [sid |-> sid, parts |-> parts]

\* a region made by join_regions carries the mark fused as well
Fused(r, sid, parts) == Tracked(r, sid, parts) @@ [fused |-> TRUE]

IsFused(r) == "fused" \in DOMAIN r

\* a.start is b.start: the same int object, or equal values in the range
\* -5..256 of ints that CPython keeps as shared objects
SameStartObject(a, b) ==
    \/ a.sid = b.sid
    \/ a.start = b.start /\ a.start \in (-5)..256

\* round(x, 0) of the fraction num/den (den > 0), halves to the even neighbour
RoundFrac(num, den) ==
    LET q == (2 * num + den) \div (2 * den)
    IN  IF (2 * num + den) % (2 * den) = 0 /\ q % 2 = 1 THEN q - 1 ELSE q

RECURSIVE SumSlen(_)
SumSlen(hits) == IF hits = <<>> THEN 0 ELSE Head(hits).slen + SumSlen(Tail(hits))

\* Ratio = RegionLength / AverageDatabaseLength as the fraction
\* (end - start) * len(hits) / sum(slen); sum(slen) > 0
Ratio(region) ==
    Frac((region.end - region.start) * Len(region.hits), SumSlen(region.hits))

\* convert_region_to_pseudo(region, Ratio*100): the note records
\* round(Ratio*100, 1), kept in tenths of a percent
convert_region_to_pseudo(region, ratio) ==
    Tracked(RegionInfo(region.contig, PseudoUniqueID, region.start, region.end,
                       region.strand, region.hits,
                       Note("ORF", RoundFrac(ratio.n * 1000, ratio.d))),
            region.sid, region.parts)

\* Ratio < length_cutoff
RatioBelow(ratio, c) == ratio.n * c.d < c.n * ratio.d

\* variant: two hits are enough
EnoughHits_AtLeast2(region) == Len(region.hits) > 1

EnoughHits(region) == Len(region.hits) > 2

check_individual_ORFs(lori, c) ==
    LET InitialList == SelectSeq(lori, EnoughHits)
        Short(region) == RatioBelow(Ratio(region), c)
        flagged == SelectSeq(InitialList, Short)
    IN  [k \in 1..Len(flagged) |-> convert_region_to_pseudo(flagged[k], Ratio(flagged[k]))]

\* pseudo_present(gene, pseudos): the first pseudo with the gene's start
pseudo_present(gene, pseudos) ==
    IF \E k \in 1..Len(pseudos) : pseudos[k].start = gene.start
    THEN <<TRUE, pseudos[CHOOSE k \in 1..Len(pseudos) :
                            /\ pseudos[k].start = gene.start
                            /\ \A j \in 1..(k - 1) : pseudos[j].start # gene.start]>>
    ELSE <<FALSE, gene>>

replace_pseudos_in_list(pseudos, genes) ==
    [k \in 1..Len(genes) |->
        IF pseudo_present(genes[k], pseudos)[1]
        THEN pseudo_present(genes[k], pseudos)[2]
        ELSE genes[k]]

\* '%04d' % n: at least four decimal digits
RECURSIVE Decimal(_)
Decimal(n) == IF n < 10 THEN <<n>> ELSE Append(Decimal(n \div 10), n % 10)

\* variant: '%d' % n, without padding
ZeroPad4_Unpadded(n) == Decimal(n)

ZeroPad4(n) ==
    LET d == Decimal(n)
    IN  IF Len(d) >= 4 THEN d ELSE [k \in 1..(4 - Len(d)) |-> 0] \o d

add_locus_tags(lori, contig) ==
    LET sorted_by_start == SortedBy(lori, StartOf)
    IN  [k \in 1..Len(lori) |->
            [sorted_by_start[k] EXCEPT !.note.tag = @ \o <<contig, ZeroPad4(k)>>]]

\* add_locus_tags applied to one list: regions with equal and different
\* starts, with and without a note
TagPool ==
    { InputRegion(300, 360, "+", <<hA>>),
      InputRegion(100, 700, "+", <<hB>>),
      join_regions(InputRegion(100, 160, "+", <<hA>>),
                   InputRegion(300, 360, "+", <<hA>>), <<hA>>) }

TagContigs == {"c1", "c2"}

AddLocusTagsToList ==
    /\ t_pc = "tag"
    /\ TaggedList' = add_locus_tags(tag_lori, tag_contig)
    /\ t_pc' = "done"
    /\ UNCHANGED <<tag_lori, tag_contig>>
    /\ UNCHANGED <<pvars, fvars, avars, cvars>>

InitTags ==
    /\ tag_lori \in SeqsUpTo(TagPool, MaxTagged)
    /\ tag_contig \in TagContigs
    /\ TaggedList = <<>>
    /\ t_pc = "tag"
    /\ ParseIdle
    /\ PairIdle
    /\ AnnotateIdle
    /\ ContigIdle

NextTags == AddLocusTagsToList

SpecTags == InitTags /\ [][NextTags]_vars

\* the regions of the pipeline's input
LengthCutoffs == {Frac(6, 10)}

PipelineHitCutoffs == {Frac(3, 10), Frac(6, 10)}

\* the non-empty region lists of at most n regions
ContigRegions(n) ==
    {[k \in 1..Len(s) |-> Tracked(s[k], k, {k})] :
        s \in SeqsUpTo(RegionPool, n) \ {<<>>}}

\* lists of four regions: the first two fuse, the last two fuse, and neither
\* of the last two is mergeable with the fusion of the first two
ChainRegions ==
    << InputRegion(100, 160, "+", <<hB, hA>>),
       InputRegion(300, 360, "+", <<hA, hB>>),
       InputRegion(500, 560, "+", <<hA, hE, hD>>),
       InputRegion(700, 760, "+", <<hB, hE, hD>>) >>

LongInputs ==
    {[k \in 1..4 |-> Tracked(ChainRegions[order[k]], k, {k})] :
        order \in {<<1, 2, 3, 4>>, <<4, 3, 2, 1>>}}

IsIndividualPseudo(region) == region.note.reason = "ORF"

IsFragmentation(region) == region.note.reason = "fragmentation"

\* the number of regions of rs not yet annotated as a fragmentation
Unannotated(rs) == Cardinality({k \in 1..Len(rs) : ~IsFragmentation(rs[k])})

\* IndividualList / MergedList without the items whose start is pseudo.start
WithoutStart(list, pseudo) ==
    LET Other(item) == ~SameStartObject(item, pseudo)
    IN  SelectSeq(list, Other)

CheckIndividual ==
    /\ a_pc = "individual"
    /\ IndividualPseudos' = check_individual_ORFs(regions, length_cutoff)
    /\ a_pc' = "replace"
    /\ UNCHANGED <<regions, hits_cutoff, length_cutoff, UpdatedList, sorted_lori,
                   MergedList, IndividualList, i, StatisticsDict, FinalList>>
    /\ UNCHANGED <<pvars, fvars, cvars, tvars>>

Replace ==
    /\ a_pc = "replace"
    /\ UpdatedList' = replace_pseudos_in_list(IndividualPseudos, regions)
    /\ a_pc' = "adjacent"
    /\ UNCHANGED <<regions, hits_cutoff, length_cutoff, IndividualPseudos,
                   sorted_lori, MergedList, IndividualList, i, StatisticsDict,
                   FinalList>>
    /\ UNCHANGED <<pvars, fvars, cvars, tvars>>

\* entry of check_adjacent_regions
StartAdjacent ==
    /\ a_pc = "adjacent"
    /\ sorted_lori' = SortedBy(UpdatedList, StartOf)
    /\ MergedList' = <<>>
    /\ IndividualList' = <<>>
    /\ i' = 0
    /\ a_pc' = "loop"
    /\ UNCHANGED <<regions, hits_cutoff, length_cutoff, IndividualPseudos,
                   UpdatedList, StatisticsDict, FinalList>>
    /\ UNCHANGED <<pvars, fvars, cvars, tvars>>

\* variant: the working list is the caller's list itself, sorted in place
lori_after_aliased(lori, working) == working

\* the list lori that the caller handed over, after the del, append and
\* sorted statements of a fuse: sorted(lori, ...) at the entry returned a
\* new list, so the working list is another object than lori
lori_after(lori, working) == lori

\* variant: the joined regions stay in the working list
Fuse_NoRemoval(a, b, counted, del) ==
    \E mh \in MergedHits(a, b) :
        LET pseudo == Fused(join_regions(a, b, mh), a.sid, a.parts \cup b.parts)
        IN  /\ StatisticsDict' =
                  [StatisticsDict EXCEPT !.FragmentedOrfs = @ + Unannotated(counted)]
            /\ MergedList' = Append(WithoutStart(MergedList, pseudo), pseudo)
            /\ sorted_lori' = SortedBy(Append(sorted_lori, pseudo), StartOf)
            /\ i' = IF i > 0 THEN i - 1 ELSE i
            /\ UpdatedList' = lori_after(UpdatedList, sorted_lori')
            /\ UNCHANGED IndividualList

\* the "if NewPseudoMade is True" part of the loop body after a fuse of
\* a and b that removed the positions del (given in descending order) and
\* counted the regions in counted
Fuse(a, b, counted, del) ==
    \E mh \in MergedHits(a, b) :
        LET pseudo == Fused(join_regions(a, b, mh), a.sid, a.parts \cup b.parts)
            RECURSIVE DelAll(_, _)
            DelAll(s, ks) == IF ks = <<>> THEN s ELSE DelAll(DelAt(s, Head(ks)), Tail(ks))
        IN  /\ StatisticsDict' =
                  [StatisticsDict EXCEPT !.FragmentedOrfs = @ + Unannotated(counted)]
            /\ MergedList' = Append(WithoutStart(MergedList, pseudo), pseudo)
            /\ sorted_lori' = SortedBy(Append(DelAll(sorted_lori, del), pseudo), StartOf)
            /\ i' = IF i > 0 THEN i - 1 ELSE i
            /\ UpdatedList' = lori_after(UpdatedList, sorted_lori')
            /\ UNCHANGED IndividualList

\* the region at i is recorded if it carries the individual-pseudogene note
NoFuse ==
    /\ IndividualList' =
          IF IsIndividualPseudo(sorted_lori[i + 1])
          THEN Append(WithoutStart(IndividualList, sorted_lori[i + 1]), sorted_lori[i + 1])
          ELSE IndividualList
    /\ i' = i + 1
    /\ UNCHANGED <<sorted_lori, MergedList, StatisticsDict, UpdatedList>>

\* one iteration of "while i < len(sorted_lori)-1"
LoopStep ==
    /\ a_pc = "loop"
    /\ i < Len(sorted_lori) - 1
    /\ IF compare_regions(sorted_lori[i + 1], sorted_lori[i + 2], hits_cutoff)
       THEN Fuse(sorted_lori[i + 1], sorted_lori[i + 2],
                 <<sorted_lori[i + 1], sorted_lori[i + 2]>>, <<i + 2, i + 1>>)
       ELSE IF /\ i < Len(sorted_lori) - 2
               /\ compare_regions(sorted_lori[i + 1], sorted_lori[i + 3], hits_cutoff)
       THEN Fuse(sorted_lori[i + 1], sorted_lori[i + 3],
                 <<sorted_lori[i + 1], sorted_lori[i + 2], sorted_lori[i + 3]>>,
                 <<i + 3, i + 2, i + 1>>)
       ELSE NoFuse
    /\ UNCHANGED <<regions, hits_cutoff, length_cutoff, IndividualPseudos,
                   FinalList, a_pc>>
    /\ UNCHANGED <<pvars, fvars, cvars, tvars>>

\* the end of the while loop: the statistics and the return
EndAdjacent ==
    /\ a_pc = "loop"
    /\ ~(i < Len(sorted_lori) - 1)
    /\ StatisticsDict' =
          [StatisticsDict EXCEPT
              !.PseudogenesTotal = @ + Len(IndividualList) + Len(MergedList),
              !.PseudogenesShort = @ + Len(IndividualList),
              !.PseudogenesFragmented = @ + Len(MergedList)]
    /\ a_pc' = "tags"
    /\ UNCHANGED <<regions, hits_cutoff, length_cutoff, IndividualPseudos,
                   UpdatedList, sorted_lori, MergedList, IndividualList, i, FinalList>>
    /\ UNCHANGED <<pvars, fvars, cvars, tvars>>

AddLocusTags ==
    /\ a_pc = "tags"
    /\ FinalList' = add_locus_tags(IndividualList \o MergedList, regions[1].contig)
    /\ a_pc' = "done"
    /\ UNCHANGED <<regions, hits_cutoff, length_cutoff, IndividualPseudos,
                   UpdatedList, sorted_lori, MergedList, IndividualList, i,
                   StatisticsDict>>
    /\ UNCHANGED <<pvars, fvars, cvars, tvars>>

Init ==
    /\ regions \in ContigRegions(MaxRegions) \cup LongInputs
    /\ hits_cutoff \in PipelineHitCutoffs
    /\ length_cutoff \in LengthCutoffs
    /\ IndividualPseudos = <<>>
    /\ UpdatedList = <<>>
    /\ sorted_lori = <<>>
    /\ MergedList = <<>>
    /\ IndividualList = <<>>
    /\ i = 0
    /\ StatisticsDict = NoStatistics
    /\ FinalList = <<>>
    /\ a_pc = "individual"
    /\ ParseIdle
    /\ PairIdle
    /\ ContigIdle
    /\ TagIdle

Next ==
    \/ CheckIndividual
    \/ Replace
    \/ StartAdjacent
    \/ LoopStep
    \/ EndAdjacent
    \/ AddLocusTags

Spec == Init /\ [][Next]_vars

(***************************************************************************)
(* Properties of parse_blast.                                              *)
(***************************************************************************)
ParseEnded == p_pc \in {"done", "IndexError", "KeyError"}

\* A report in the documented format: query sections in sequence, each a
\* "# Query:" header of a query not seen before, followed either by a
\* "# 0 hits found" line or by one or more data rows of that query; other
\* comment lines may stand before a header, between the header and its rows or
\* its "# 0 hits found" line, and after the rows of a query (a comment line
\* ends the rows before the next header).
RECURSIVE Documented(_, _, _, _)
Documented(ls, mode, cur, seen) ==
    IF ls = <<>> THEN mode \in {"between", "rows"}
    ELSE LET l == Head(ls)
         IN  CASE mode = "between" ->
                     \/ l.kind = "comment" /\ Documented(Tail(ls), "between", cur, seen)
                     \/ /\ l.kind = "query"
                        /\ l.id \notin seen
                        /\ Documented(Tail(ls), "header", l.id, seen \cup {l.id})
                [] mode = "header" ->
                     \/ l.kind = "comment" /\ Documented(Tail(ls), "header", cur, seen)
                     \/ l.kind = "zero" /\ Documented(Tail(ls), "between", cur, seen)
                     \/ l.kind = "hit" /\ l.id = cur /\ Documented(Tail(ls), "rows", cur, seen)
                [] OTHER ->
                     \/ l.kind = "hit" /\ l.id = cur /\ Documented(Tail(ls), "rows", cur, seen)
                     \/ l.kind = "comment" /\ Documented(Tail(ls), "between", cur, seen)

\* a documented report that lists at least one query
DocumentedReport(ls) ==
    Documented(ls, "between", <<>>, {}) /\ \E k \in 1..Len(ls) : ls[k].kind = "query"

\* the data rows of the section that the header at position h opens
SectionEnd(ls, h) ==
    IF \E k \in (h + 1)..Len(ls) : ls[k].kind = "query"
    THEN (CHOOSE k \in (h + 1)..Len(ls) :
             ls[k].kind = "query" /\ \A j \in (h + 1)..(k - 1) : ls[j].kind # "query") - 1
    ELSE Len(ls)

RowCount(ls, h) == Cardinality({k \in (h + 1)..SectionEnd(ls, h) : ls[k].kind = "hit"})

\* what the claim expects of a report: for each header with data rows, in
\* order, the header's coordinates and the number of its rows
RECURSIVE ExpectedFrom(_, _)
ExpectedFrom(ls, h) ==
    IF h > Len(ls) THEN <<>>
    ELSE IF ls[h].kind = "query" /\ RowCount(ls, h) > 0
         THEN <<[contig |-> ls[h].contig, start |-> ls[h].start, end |-> ls[h].end,
                 strand |-> ls[h].strand, nhits |-> RowCount(ls, h)]>>
              \o ExpectedFrom(ls, h + 1)
         ELSE ExpectedFrom(ls, h + 1)

Summary(rl) ==
    [k \in 1..Len(rl) |->
        [contig |-> rl[k].contig, start |-> rl[k].start, end |-> rl[k].end,
         strand |-> rl[k].strand, nhits |-> Len(rl[k].hits)]]

\* C1: for a BlastP report in the documented format, parse_blast returns one
\* region per query that has data rows, in order, each with the contig, start,
\* end and strand of the query's header and one hit per data row.
C1_ParserRoundTrip ==
    (ParseEnded /\ blast_format = "BlastP" /\ DocumentedReport(lines)) =>
        (p_pc = "done" /\ Summary(regionList) = ExpectedFrom(lines, 1))

\* the state of the loop after the first n lines
RECURSIVE ParsePrefix(_, _, _)
ParsePrefix(ls, qs, n) ==
    IF n = 0 THEN [dict |-> <<>>, qi |-> 0, err |-> ""]
    ELSE LET s == ParsePrefix(ls, qs, n - 1)
         IN  IF s.err # "" THEN s ELSE LineStep(ls, qs, n - 1, s.dict, s.qi)

\* a header or a data row that names another query than the expected one
Mismatch(line, q) == line.kind \in {"query", "hit"} /\ line.id # q

\* the line at 0-based index n is examined while another query is expected
MismatchAt(ls, qs, n) ==
    LET s == ParsePrefix(ls, qs, n)
    IN  s.err = "" /\ s.qi < Len(qs) /\ Mismatch(ls[n + 1], qs[s.qi + 1])

\* C2: parse_blast never returns a region list when it has examined a
\* "# Query:" header or a data row whose identifier is not the one expected
\* at the current query index; it ends in an error instead.
C2_MismatchIsFatal ==
    p_pc = "done" => \A n \in 0..(Len(lines) - 1) : ~MismatchAt(lines, queries, n)

\* the replayed loop state agrees with the state of the loop
ReplayAgrees ==
    p_pc = "loop" =>
        /\ ParsePrefix(lines, queries, line_number).dict = QueryDict
        /\ ParsePrefix(lines, queries, line_number).qi = queryIndex

\* the identifiers of the sections of the report that hold a "# 0 hits found"
\* line, and of those that hold data rows
ZeroHitIds(ls) ==
    {ls[h].id : h \in {k \in 1..Len(ls) :
        /\ ls[k].kind = "query"
        /\ \E j \in (k + 1)..SectionEnd(ls, k) : ls[j].kind = "zero"}}

HitBearingIds(ls) ==
    {ls[h].id : h \in {k \in 1..Len(ls) : ls[k].kind = "query" /\ RowCount(ls, k) > 0}}

ReturnedIds == {regionList[k].query : k \in 1..Len(regionList)}

QueryLineCount(ls) == Cardinality({k \in 1..Len(ls) : ls[k].kind = "query"})

\* C11: for a report in the documented format with a zero-hit query,
\* parse_blast returns a list that holds no zero-hit query and holds every
\* query with data rows, and ProteomeOrfs is the number of "# Query:" lines.
C11_ZeroHitsOmitted ==
    (ParseEnded /\ DocumentedReport(lines) /\ ZeroHitIds(lines) # {}) =>
        /\ p_pc = "done"
        /\ ReturnedIds \cap ZeroHitIds(lines) = {}
        /\ HitBearingIds(lines) \subseteq ReturnedIds
        /\ ProteomeOrfs = QueryLineCount(lines)

\* whenever a list is returned for a documented report, it holds exactly the
\* queries that have data rows
ZeroHitsOmittedWhenReturned ==
    (p_pc = "done" /\ DocumentedReport(lines)) =>
        /\ ReturnedIds = HitBearingIds(lines)
        /\ ProteomeOrfs = QueryLineCount(lines)

\* C18: for a report with at least one query, the first line never counts
\* as the end of a query's hits: once line 0 is processed queryIndex is
\* still 0 unless line 0 is "# 0 hits found", and line 0 raises no IndexError.
C18_FirstLineNoEndOfHits ==
    (p_pc # "start" /\ Len(queries) > 0) =>
        /\ (p_pc = "loop" /\ line_number = 1 /\ ~MatchesZeroHits(lines[1])) => queryIndex = 0
        /\ ~(p_pc = "IndexError" /\ line_number = 0)

\* the position of the "# Query:" line that names the query q
HeaderPos(ls, q) == CHOOSE h \in 1..Len(ls) : ls[h].kind = "query" /\ ls[h].id = q

\* the positions of the data rows of the section that the header at h opens
RowsOf(ls, h) == {k \in (h + 1)..SectionEnd(ls, h) : ls[k].kind = "hit"}

\* C19: for a documented report parsed as BlastX, each returned region
\* starts at the start of its "# Query:" line plus the least s_start of its
\* data rows plus 1 and ends at that start plus the greatest s_end of its
\* rows plus 1; parsed as BlastP, it has the start and end of its
\* "# Query:" line.
C19_RegionRange ==
    (p_pc = "done" /\ DocumentedReport(lines)) =>
        \A k \in 1..Len(regionList) :
            LET h == HeaderPos(lines, regionList[k].query)
                rows == RowsOf(lines, h)
                window_start == lines[h].start
            IN  IF blast_format = "BlastX"
                THEN /\ \E j \in rows : regionList[k].start = window_start + lines[j].sstart + 1
                     /\ \A j \in rows : regionList[k].start <= window_start + lines[j].sstart + 1
                     /\ \E j \in rows : regionList[k].end = window_start + lines[j].send + 1
                     /\ \A j \in rows : regionList[k].end >= window_start + lines[j].send + 1
                ELSE /\ regionList[k].start = lines[h].start
                     /\ regionList[k].end = lines[h].end

\* a BlastX region with two hits whose least s_start and greatest s_end are
\* not those of its first hit
C19_Witness ==
    /\ p_pc = "done"
    /\ DocumentedReport(lines)
    /\ blast_format = "BlastX"
    /\ \E k \in 1..Len(regionList) :
          /\ Len(regionList[k].hits) = 2
          /\ regionList[k].hits[2].s_start < regionList[k].hits[1].s_start
          /\ regionList[k].hits[2].s_end > regionList[k].hits[1].s_end
          /\ regionList[k].start =
                lines[HeaderPos(lines, regionList[k].query)].start
                + regionList[k].hits[2].s_start + 1

\* C23: for a report in the documented format, queryIndex is a valid index
\* into queries whenever a line is about to be examined, and the parse never
\* ends in an IndexError.
C23_QueryIndexInRange ==
    DocumentedReport(lines) =>
        /\ (p_pc = "loop" /\ line_number < Len(lines)) => queryIndex < Len(queries)
        /\ p_pc # "IndexError"

(***************************************************************************)
(* Properties of compare_regions and join_regions.                         *)
(***************************************************************************)
\* the conditions under which two regions are mergeable: the gap from the
\* end of the earlier-starting region to the start of the later-starting one
\* is below 1000, the strands are equal, both have a hit and the shared
\* accessions are at least the fraction h of the smaller hit count
ClaimedGap(a, b) == IF a.start <= b.start THEN b.start - a.end ELSE a.start - b.end

ClaimedMergeable(a, b, h) ==
    /\ ClaimedGap(a, b) < 1000
    /\ a.strand = b.strand
    /\ Len(a.hits) >= 1
    /\ Len(b.hits) >= 1
    /\ Cardinality(AccessionsOf(a) \cap AccessionsOf(b)) * h.d
          >= h.n * Min2(Len(a.hits), Len(b.hits))

\* C5: compare_regions(r1, r2, h) is true exactly when the gap between the
\* earlier-starting region's end and the later-starting region's start is
\* below 1000 (negative gaps included), the strands are equal, and both
\* regions have a hit with shared accessions / min(hit counts) >= h.
C5_CompareRegions ==
    f_pc \in {"join", "done"} => (mergeable <=> ClaimedMergeable(r1, r2, cutoff))

\* r1 starts after r2 and overlaps it, and the two were found mergeable
C5_Witness ==
    /\ f_pc = "join"
    /\ mergeable
    /\ r2.start < r1.start
    /\ ClaimedGap(r1, r2) < 0

\* C7: the hits of join_regions(r1, r2) are exactly the hits of r1.hits and
\* r2.hits, each distinct hit once, in order of non-decreasing e-value.
C7_JoinedHits ==
    f_pc = "done" =>
        /\ Range(joined.hits) = Range(r1.hits) \cup Range(r2.hits)
        /\ \A j, k \in 1..Len(joined.hits) :
              /\ j # k => joined.hits[j] # joined.hits[k]
              /\ j < k => joined.hits[j].eval <= joined.hits[k].eval

\* two regions sharing a hit have been joined, and hits of equal e-value met
C7_Witness ==
    /\ f_pc = "done"
    /\ Range(r1.hits) \cap Range(r2.hits) # {}
    /\ Len(joined.hits) < Len(r1.hits) + Len(r2.hits)
    /\ \E j \in 1..(Len(joined.hits) - 1) : joined.hits[j].eval = joined.hits[j + 1].eval

(***************************************************************************)
(* Properties of annotate_pseudos and check_adjacent_regions.              *)
(***************************************************************************)
AdjacentReturned == a_pc \in {"tags", "done"}

\* twice the length of the working list minus the index: the loop runs while
\* i < len(sorted_lori) - 1, so the variant is at least 3 in every iteration
Variant == 2 * Len(sorted_lori) - i

InLoop == a_pc = "loop" /\ i < Len(sorted_lori) - 1

\* C3: check_adjacent_regions terminates for every region list and cutoff:
\* every iteration of the loop, a fuse that rewinds i included, strictly
\* lowers a variant that never goes below 0, so the loop condition fails
\* after finitely many iterations.
C3_Terminates ==
    [][InLoop => (a_pc' = "loop" /\ Variant' < Variant /\ Variant' >= 0 /\ i' >= 0)]_vars

\* the loop has ended after a fuse at an index above 0 rewound it: the second
\* fused region starts left of the first
C3_Witness ==
    /\ AdjacentReturned
    /\ Len(MergedList) = 2
    /\ MergedList[2].start < MergedList[1].start

\* C4: no input region is both in the standalone list and joined into a
\* region of the fused list that check_adjacent_regions returns.
C4_Disjoint ==
    AdjacentReturned =>
        \A j \in 1..Len(IndividualList), k \in 1..Len(MergedList) :
            IndividualList[j].parts \cap MergedList[k].parts = {}

\* the pair of regions that the iteration at hand fuses, <<>> if none
FusedPair ==
    IF ~(a_pc = "loop" /\ i < Len(sorted_lori) - 1) THEN <<>>
    ELSE IF compare_regions(sorted_lori[i + 1], sorted_lori[i + 2], hits_cutoff)
    THEN <<sorted_lori[i + 1], sorted_lori[i + 2]>>
    ELSE IF /\ i < Len(sorted_lori) - 2
            /\ compare_regions(sorted_lori[i + 1], sorted_lori[i + 3], hits_cutoff)
    THEN <<sorted_lori[i + 1], sorted_lori[i + 3]>>
    ELSE <<>>

Last(s) == s[Len(s)]

\* C6: a fused region spans from the minimum start to the maximum end of the
\* two regions it is made of and has the strand of the earlier-starting one.
C6_FusedSpan ==
    [][FusedPair # <<>> =>
          LET a == FusedPair[1]
              b == FusedPair[2]
              m == Last(MergedList')
          IN  /\ m.start = Min2(a.start, b.start)
              /\ m.end = Max2(a.end, b.end)
              /\ m.strand = (IF a.start <= b.start THEN a.strand ELSE b.strand)]_vars

\* the length criterion of the individual classifier
ClaimedShort(region, c) ==
    /\ Len(region.hits) > 2
    /\ (region.end - region.start) * Len(region.hits) * c.d < c.n * SumSlen(region.hits)

\* the input region at position k was flagged
WasFlagged(k) == \E j \in 1..Len(IndividualPseudos) : IndividualPseudos[j].parts = {k}

IndividualChecked == a_pc \notin {"off", "individual"}

\* C8: check_individual_ORFs returns the pseudogene version of a region
\* exactly when the region has more than 2 hits and (end - start) / mean
\* target length is below the length cutoff, whatever the other regions are.
C8_IndividualCriterion ==
    IndividualChecked =>
        /\ \A k \in 1..Len(regions) : WasFlagged(k) <=> ClaimedShort(regions[k], length_cutoff)
        /\ \A j \in 1..Len(IndividualPseudos) :
              \E k \in 1..Len(regions) :
                  /\ IndividualPseudos[j].parts = {k}
                  /\ IndividualPseudos[j].start = regions[k].start
                  /\ IndividualPseudos[j].end = regions[k].end
                  /\ IndividualPseudos[j].hits = regions[k].hits
                  /\ IsIndividualPseudo(IndividualPseudos[j])

\* of three regions with more than 2 hits one is flagged, one is long enough
\* and one sits exactly on the cutoff
C8_Witness ==
    /\ IndividualChecked
    /\ Len(IndividualPseudos) = 1
    /\ \E k \in 1..Len(regions) :
          /\ Len(regions[k].hits) > 2
          /\ ~WasFlagged(k)
          /\ Ratio(regions[k]).n * length_cutoff.d = length_cutoff.n * Ratio(regions[k]).d
    /\ \E k \in 1..Len(regions) :
          /\ Len(regions[k].hits) > 2
          /\ ~WasFlagged(k)
          /\ Ratio(regions[k]).n * length_cutoff.d > length_cutoff.n * Ratio(regions[k]).d

\* the pair that the iteration at hand is to fuse according to the mergeable
\* conditions: the adjacent pair, else the pair that skips one region
ClaimedPair ==
    IF ~(a_pc = "loop" /\ i < Len(sorted_lori) - 1) THEN <<>>
    ELSE IF ClaimedMergeable(sorted_lori[i + 1], sorted_lori[i + 2], hits_cutoff)
    THEN <<sorted_lori[i + 1], sorted_lori[i + 2]>>
    ELSE IF /\ i < Len(sorted_lori) - 2
            /\ ClaimedMergeable(sorted_lori[i + 1], sorted_lori[i + 3], hits_cutoff)
    THEN <<sorted_lori[i + 1], sorted_lori[i + 3]>>
    ELSE <<>>

FewHits(region) == Len(region.hits) < 3

\* C9: a region with fewer than 3 hits is never flagged by
\* check_individual_ORFs, and check_adjacent_regions still fuses it with the
\* neighbour it examines whenever the two satisfy the mergeable conditions.
C9_FewHitsStillMerge ==
    /\ [](\A j \in 1..Len(IndividualPseudos) : ~FewHits(IndividualPseudos[j]))
    /\ [][(ClaimedPair # <<>> /\ (FewHits(ClaimedPair[1]) \/ FewHits(ClaimedPair[2]))) =>
             /\ Len(MergedList') >= 1
             /\ Last(MergedList').parts = ClaimedPair[1].parts \cup ClaimedPair[2].parts
             /\ \E k \in 1..Len(sorted_lori') : sorted_lori'[k] = Last(MergedList')]_vars

\* an input region with 2 hits and a length below the cutoff fraction of its
\* hits' mean length was not flagged and is part of a fused region
C9_Witness ==
    \E m \in 1..Len(MergedList) : \E k \in MergedList[m].parts :
        /\ FewHits(regions[k])
        /\ RatioBelow(Ratio(regions[k]), length_cutoff)
        /\ ~WasFlagged(k)

Replaced == a_pc \notin {"off", "individual", "replace"}

\* C10: replace_pseudos_in_list returns a list as long as genes, holding at
\* position k the flagged version of genes[k] if genes[k] was flagged and
\* genes[k] itself otherwise.
C10_ReplaceInPlace ==
    Replaced =>
        /\ Len(UpdatedList) = Len(regions)
        /\ \A k \in 1..Len(regions) :
              UpdatedList[k] =
                 IF WasFlagged(k)
                 THEN convert_region_to_pseudo(regions[k], Ratio(regions[k]))
                 ELSE regions[k]

\* C13: matching_hit_critera gives the same answer for a pair of regions
\* and a cutoff whichever of the two regions is passed first.
C13_CriteriaSymmetric ==
    f_pc \in {"join", "done"} =>
        (matching_hit_critera(r1, r2, cutoff) <=> matching_hit_critera(r2, r1, cutoff))

\* the first region has more hits than the second, the pair meets the
\* cutoff, and would not meet it relative to the first region's hit count
C13_Witness ==
    /\ f_pc = "join"
    /\ Len(r1.hits) > Len(r2.hits)
    /\ Len(r2.hits) > 0
    /\ matching_hit_critera(r1, r2, cutoff)
    /\ number_of_matching_hits(r1, r2) * cutoff.d < cutoff.n * Len(r1.hits)

\* the regions of the list that are input regions, not fusion products
Originals(rs) == Cardinality({k \in 1..Len(rs) : ~IsFused(rs[k])})

\* C15: every fuse of check_adjacent_regions, of adjacent regions or across
\* one region, leaves fewer input regions in the working list than before.
C15_FuseConsumesOriginal ==
    [][FusedPair # <<>> => Originals(sorted_lori') < Originals(sorted_lori)]_vars

\* check_adjacent_regions has begun its loop
AdjacentStarted == a_pc \in {"loop", "tags", "done"}

\* the input regions that were in the working list of check_adjacent_regions
\* at its start and are in it no more
RemovedOriginals ==
    {k \in 1..Len(regions) :
        /\ \E j \in 1..Len(UpdatedList) : UpdatedList[j].parts = {k}
        /\ ~\E j \in 1..Len(sorted_lori) :
               ~IsFused(sorted_lori[j]) /\ sorted_lori[j].parts = {k}}

\* C16: during a run of check_adjacent_regions FragmentedOrfs equals the
\* number of distinct input regions that fuses have removed from the working
\* list, skipped regions included; fusion products are not counted, so the
\* statistic never exceeds the number of input regions.
C16_FragmentedOrfsCount ==
    AdjacentStarted =>
        /\ StatisticsDict.FragmentedOrfs = Cardinality(RemovedOriginals)
        /\ StatisticsDict.FragmentedOrfs <= Len(regions)

\* the working list starts with each of its regions once
NoDuplicateEntries ==
    \A j, k \in 1..Len(UpdatedList) : j # k => UpdatedList[j].parts # UpdatedList[k].parts

\* without duplicate entries the statistic is the number of removed regions
FragmentedOrfsCountWithoutDuplicates ==
    (AdjacentStarted /\ NoDuplicateEntries) =>
        StatisticsDict.FragmentedOrfs = Cardinality(RemovedOriginals)

\* C17: after every insertion into MergedList no two of its regions have the
\* same start coordinate, and the region just fused is in the list, so for
\* each start coordinate the list keeps the region fused most recently.
C17_MergedListUniqueStarts ==
    /\ [](\A j, k \in 1..Len(MergedList) :
             j # k => MergedList[j].start # MergedList[k].start)
    /\ [][FusedPair # <<>> =>
             /\ Len(MergedList') >= 1
             /\ Last(MergedList').start = FusedPair[1].start
             /\ Last(MergedList').parts = FusedPair[1].parts \cup FusedPair[2].parts]_vars

\* check_adjacent_regions has been called and has not returned
AdjacentGiven == a_pc = "adjacent" \/ a_pc = "loop"

C21_FlaggedIsReported ==
    AdjacentReturned =>
        \A j \in 1..Len(sorted_lori) :
            IsIndividualPseudo(sorted_lori[j]) =>
                \E k \in 1..Len(IndividualList) : IndividualList[k] = sorted_lori[j]

\* C22: when check_adjacent_regions returns, every region of MergedList is
\* in the working list, and no input region is part of two regions of
\* MergedList.
C22_MergedListIsFinal ==
    AdjacentReturned =>
        /\ \A k \in 1..Len(MergedList) :
              \E j \in 1..Len(sorted_lori) : sorted_lori[j] = MergedList[k]
        /\ \A j, k \in 1..Len(MergedList) :
              j # k => MergedList[j].parts \cap MergedList[k].parts = {}

(***************************************************************************)
(* Properties of split_regions_into_contigs and sort_contigs.              *)
(***************************************************************************)
\* the regions of the contigs, contig after contig
RECURSIVE Flatten(_)
Flatten(loc) ==
    IF loc = <<>> THEN <<>> ELSE Head(loc).regions \o Flatten(Tail(loc))

\* how many times r occurs in the list s
Occurrences(s, r) == Cardinality({k \in 1..Len(s) : s[k] = r})

TagRank(s, j) ==
    Cardinality({k \in 1..Len(s) : s[k].start < s[j].start})
    + Cardinality({k \in 1..j : s[k].start = s[j].start})

\* the number that a sequence of decimal digits denotes
RECURSIVE DigitsValue(_)
DigitsValue(d) ==
    IF d = <<>> THEN 0 ELSE 10 * DigitsValue(SubSeq(d, 1, Len(d) - 1)) + d[Len(d)]

\* d is k written in decimal, zero-padded on the left to four digits
IsPadded4(d, k) ==
    /\ \A j \in 1..Len(d) : d[j] \in 0..9
    /\ DigitsValue(d) = k
    /\ Len(d) >= 4
    /\ Len(d) > 4 => d[1] # 0

====
